---- MODULE Spec2Model ----
(***************************************************************************)
(* A model of mist.io's view helpers (src/src/mist/io/helpers.py):         *)
(* load_settings / save_settings, get_machine_actions, import_key,         *)
(* create_security_group and run_command.                                  *)
(*                                                                         *)
(* The libraries the helpers delegate to (libcloud drivers, fabric, yaml,  *)
(* tempfile) are modelled as stubs whose answers are chosen                *)
(* nondeterministically among the outcomes they can produce.               *)
(***************************************************************************)
EXTENDS Integers, Sequences, FiniteSets, TLC

VARIABLES
    \* ---- run_command: one entry per calling thread ----
    pc,          \* position of each thread inside run_command
    args,        \* arguments of the running invocation
    tmp_path,    \* local tmp_path (0: not yet created)
    cmd_output,  \* local cmd_output (token list)
    username,    \* local username
    result,      \* what the invocation returned
    log,         \* per invocation: the SSH runs and tag calls it made, in order
    raised,      \* per invocation: the exception raised inside the try block
    overlap,     \* per invocation: ran while another invocation was running
    env,         \* fabric.api.env, the process-global session configuration
    tags,        \* tags on the provider, per machine id
    calls,       \* number of run_command invocations started
    \* ---- temporary directory, shared by run_command and import_key ----
    files,       \* paths of the temporary files that exist
    created,     \* number of temporary files created so far by mkstemp
    \* ---- import_key / create_security_group ----
    keystore,    \* provider: number of key pairs held under each name
    groups,      \* provider: security groups under each name
    hist,        \* the provisioning calls made so far, in order
    \* ---- settings store ----
    settings,    \* the in-memory settings dictionary
    file,        \* settings.yaml
    saved,       \* the record last passed to save_settings
    before,      \* the settings dictionary as it was when load_settings began
    last,        \* the last settings operation
    \* ---- get_machine_actions ----
    machine,     \* machine.state of the query
    backend,     \* backend.type of the query
    actions      \* the returned dictionary

rcVars  == <<pc, args, tmp_path, cmd_output, username, result, log, raised,
             overlap, env, tags, calls>>
osVars  == <<files, created>>
prVars  == <<keystore, groups, hist>>
stVars  == <<settings, file, saved, before, last>>
gmVars  == <<machine, backend, actions>>
vars    == <<rcVars, osVars, prVars, stVars, gmVars>>

(***************************************************************************)
(* Bounds of the model.                                                    *)
(***************************************************************************)
\* run_command invocations started in one behaviour
MaxCalls == 3
\* provisioning calls (import_key / create_security_group) in one behaviour
MaxProvCalls == 3
\* settings operations after which the behaviour stops changing the settings
MaxEdits == 2

(***************************************************************************)
(* Providers.  EC2_PROVIDERS comes from mist.io.config.                    *)
(***************************************************************************)
EC2_PROVIDERS == {"EC2_US_EAST", "EC2_EU_WEST", "EC2_US_WEST", "EC2_AP_SOUTHEAST",
                  "EC2_AP_NORTHEAST", "EC2_SA_EAST", "EC2_US_WEST_OREGON"}
ProviderTypes == EC2_PROVIDERS \cup {"RACKSPACE_FIRST_GEN", "LINODE", "RACKSPACE", "OPENSTACK"}

(***************************************************************************)
(* get_machine_actions (helpers.py 130-175)                                *)
(***************************************************************************)
NodeStates == {"RUNNING", "REBOOTING", "TERMINATED", "PENDING", "UNKNOWN", "OTHER"}

\* the defaults for the running state, lines 140-144
DefaultActions ==
    [can_start |-> FALSE, can_stop |-> FALSE, can_destroy |-> TRUE,
     can_reboot |-> TRUE, can_tag |-> TRUE]

\* lines 146-147
Ec2Override(a, type) ==
    IF type \in EC2_PROVIDERS THEN [a EXCEPT !.can_stop = TRUE] ELSE a

\* lines 149-151
TagOverride(a, type) ==
    IF type = "RACKSPACE_FIRST_GEN" \/ type = "LINODE"
    THEN [a EXCEPT !.can_tag = FALSE] ELSE a

\* a plausible slip: the second elif tests only the state, so an UNKNOWN
\* machine on EC2 is treated like a terminated one
StateOverrideNoEc2Stopped(a, state, type) ==
    IF state \in {"REBOOTING", "PENDING"}
    THEN [a EXCEPT !.can_start = FALSE, !.can_stop = FALSE, !.can_reboot = FALSE]
    ELSE IF state \in {"TERMINATED", "UNKNOWN"}
    THEN [a EXCEPT !.can_start = FALSE, !.can_destroy = FALSE, !.can_stop = FALSE,
                   !.can_reboot = FALSE, !.can_tag = FALSE]
    ELSE a

\* lines 154-169.  `machine.state is NodeState.UNKNOWN` compares libcloud's
\* small-integer state constants, for which identity is equality.
StateOverride(a, state, type) ==
    IF state \in {"REBOOTING", "PENDING"}
    THEN [a EXCEPT !.can_start = FALSE, !.can_stop = FALSE, !.can_reboot = FALSE]
    ELSE IF state = "UNKNOWN" /\ type \in EC2_PROVIDERS
    THEN [a EXCEPT !.can_stop = FALSE, !.can_start = TRUE, !.can_reboot = FALSE]
    ELSE IF state \in {"TERMINATED", "UNKNOWN"}
    THEN [a EXCEPT !.can_start = FALSE, !.can_destroy = FALSE, !.can_stop = FALSE,
                   !.can_reboot = FALSE, !.can_tag = FALSE]
    ELSE a

get_machine_actions(state, type) ==
    StateOverride(TagOverride(Ec2Override(DefaultActions, type), type), state, type)

\* no dictionary returned yet
NoActions == [pending |-> TRUE]

InitGm ==
    /\ machine \in NodeStates
    /\ backend \in ProviderTypes
    /\ actions = NoActions

\* a view asks for the actions of the machine at hand
GetMachineActions ==
    /\ actions = NoActions
    /\ actions' = get_machine_actions(machine, backend)
    /\ UNCHANGED <<machine, backend>>

\* the next query: another machine, another backend
NextMachine ==
    /\ actions # NoActions
    /\ machine' \in NodeStates
    /\ backend' \in ProviderTypes
    /\ actions' = NoActions

(***************************************************************************)
(* run_command (helpers.py 235-316)                                        *)
(*                                                                         *)
(* A command output is modelled by the list of its whitespace-separated    *)
(* tokens, the tokens being joined by single blanks (fabric strips the     *)
(* output); a token is a word, possibly wrapped in double quotes.          *)
(***************************************************************************)
Threads == {"t1", "t2"}
Hosts == {"", "h1", "h2"}
Users == {"", "ubuntu"}
Commands == {"", "uptime"}
MachineIds == {"m1"}

W(w) == [w |-> w, q |-> FALSE]
Q(w) == [w |-> w, q |-> TRUE]

\* 'Please login as the' and 'Please login as the user '
Msg == <<W("Please"), W("login"), W("as"), W("the")>>
MsgUser == Msg \o <<W("user")>>

OutOk == <<W("up"), W("3"), W("days")>>
OutUser == MsgUser \o <<Q("ec2-user"), W("rather"), W("than"), W("the"), W("user"), Q("root")>>
OutPlain == Msg \o <<W("ec2-user"), W("rather"), W("than"), W("root")>>
OutShort == Msg
OutPrefixed == <<W("Warning:")>> \o MsgUser \o <<Q("admin")>>
Outputs == {OutOk, OutUser, OutPlain, OutShort, OutPrefixed}

\* what a library call may raise: an Exception subclass, or SystemExit
\* (fabric aborts with SystemExit)
Raisable == {"Exception", "SystemExit"}

\* pat occurs in toks at token i
HasAt(toks, pat, i) ==
    /\ i + Len(pat) - 1 <= Len(toks)
    /\ \A j \in 1..Len(pat) : toks[i + j - 1] = pat[j]

\* 'Please login as the' in cmd_output, lines 289
HasLoginMsg(toks) == \E i \in 1..Len(toks) : HasAt(toks, Msg, i)

\* 'Please login as the user ' in cmd_output, line 292: the trailing blank
\* of the pattern means that a token follows
HasLoginUserMsg(toks) ==
    \E i \in 1..Len(toks) : HasAt(toks, MsgUser, i) /\ i + Len(MsgUser) <= Len(toks)

\* cmd_output.split()[i], 0-based; IndexError past the end
Item(toks, i) ==
    IF i + 1 <= Len(toks) THEN [ok |-> TRUE, v |-> toks[i + 1]] ELSE [ok |-> FALSE]

\* tok.strip('"')
Strip(tok) == tok.w

\* a plausible slip: always the first position, also for the "user" wording
ParseUsernameFirstOnly(toks) ==
    LET first == Item(toks, 4) IN
    IF ~first.ok THEN [ok |-> FALSE] ELSE [ok |-> TRUE, name |-> Strip(first.v)]

\* lines 291-293
ParseUsername(toks) ==
    LET first == Item(toks, 4) IN
    IF ~first.ok THEN [ok |-> FALSE]
    ELSE IF HasLoginUserMsg(toks)
         THEN LET second == Item(toks, 5) IN
              IF ~second.ok THEN [ok |-> FALSE]
              ELSE [ok |-> TRUE, name |-> Strip(second.v)]
         ELSE [ok |-> TRUE, name |-> Strip(first.v)]

NoResult == [kind |-> "none"]
Response(body, status) == [kind |-> "response", status |-> status, body |-> body]
Output(toks) == [kind |-> "output", out |-> toks]
Propagated(exc) == [kind |-> "raised", exc |-> exc]

\* isinstance(exc, cls): SystemExit is no subclass of Exception
IsInstance(exc, cls) ==
    \/ cls = "Exception" /\ exc \in {"Exception", "IndexError"}
    \/ cls = "SystemExit" /\ exc = "SystemExit"

\* the except clauses of a try statement, tried in order
Catch(handlers, exc) ==
    LET hit == {i \in 1..Len(handlers) : IsInstance(exc, handlers[i].cls)} IN
    IF hit = {} THEN Propagated(exc)
    ELSE LET i == CHOOSE k \in hit : \A m \in hit : k <= m IN
         Response(handlers[i].body, handlers[i].status)

\* lines 304-306
InnerHandlers ==
    <<[cls |-> "Exception", status |-> 503, body |-> "Exception while executing command"]>>

\* a plausible slip: no except clause for SystemExit
OuterHandlersNoSystemExit ==
    <<[cls |-> "Exception", status |-> 503, body |-> "Exception while executing command"]>>

\* lines 307-312
OuterHandlers ==
    <<[cls |-> "Exception", status |-> 503, body |-> "Exception while executing command"],
      [cls |-> "SystemExit", status |-> 204, body |-> "SystemExit"]>>

\* the retry's try statement nested in the outer one, lines 302-312
RetryCatch(exc) ==
    LET inner == Catch(InnerHandlers, exc) IN
    IF inner.kind = "raised" THEN Catch(OuterHandlers, exc) ELSE inner

Active(t) == pc[t] \notin {"idle", "done"}

\* fabric's defaults
InitEnv ==
    [key_filename |-> 0, user |-> "local", host_string |-> "",
     abort_on_prompts |-> FALSE, no_keys |-> FALSE, no_agent |-> FALSE,
     warn_only |-> FALSE, combine_stderr |-> TRUE]

NoArgs == [host |-> "", ssh_user |-> "", command |-> "", machine_id |-> "m1"]

InitRc ==
    /\ pc = [t \in Threads |-> "idle"]
    /\ args = [t \in Threads |-> NoArgs]
    /\ tmp_path = [t \in Threads |-> 0]
    /\ cmd_output = [t \in Threads |-> <<>>]
    /\ username = [t \in Threads |-> ""]
    /\ result = [t \in Threads |-> NoResult]
    /\ log = [t \in Threads |-> <<>>]
    /\ raised = [t \in Threads |-> "none"]
    /\ overlap = [t \in Threads |-> FALSE]
    /\ env = InitEnv
    /\ tags = [m \in MachineIds |-> ""]
    /\ calls = 0

InitOs ==
    /\ files = {}
    /\ created = 0

\* `return r`
Return(t, r) ==
    /\ result' = [result EXCEPT ![t] = r]
    /\ pc' = [pc EXCEPT ![t] = "done"]

Goto(t, label) ==
    /\ pc' = [pc EXCEPT ![t] = label]
    /\ UNCHANGED result

\* the SSH layer runs the command with the session configuration of the
\* moment, and answers with an output or raises
RunRecord(out, exc) ==
    [ev |-> "run", host |-> env.host_string, user |-> env.user,
     key |-> env.key_filename, out |-> out, exc |-> exc]

\* run_command(conn, machine_id, host, ssh_user, private_key, command) is entered
Enter(t) ==
    /\ calls < MaxCalls
    /\ calls' = calls + 1
    /\ \E h \in Hosts, u \in Users, c \in Commands, m \in MachineIds :
          args' = [args EXCEPT ![t] = [host |-> h, ssh_user |-> u, command |-> c,
                                       machine_id |-> m]]
    /\ tmp_path' = [tmp_path EXCEPT ![t] = 0]
    /\ cmd_output' = [cmd_output EXCEPT ![t] = <<>>]
    /\ username' = [username EXCEPT ![t] = ""]
    /\ result' = [result EXCEPT ![t] = NoResult]
    /\ log' = [log EXCEPT ![t] = <<>>]
    /\ raised' = [raised EXCEPT ![t] = "none"]
    /\ overlap' = IF \E o \in Threads \ {t} : Active(o)
                  THEN [o \in Threads |-> IF o = t \/ Active(o) THEN TRUE ELSE overlap[o]]
                  ELSE [overlap EXCEPT ![t] = FALSE]
    /\ pc' = [pc EXCEPT ![t] = "check"]
    /\ UNCHANGED <<env, tags, osVars>>

\* a plausible slip: the command is checked before the host
PrecheckCommandFirst(t) ==
    /\ pc[t] = "check"
    /\ IF args[t].command = "" THEN Return(t, Output(<<>>))
       ELSE IF args[t].host = "" THEN Return(t, Response("Host not set", 503))
       ELSE Goto(t, "mkstemp")
    /\ UNCHANGED <<args, tmp_path, cmd_output, username, log, raised, overlap, env,
                   tags, calls, osVars>>

\* lines 262-268
Precheck(t) ==
    /\ pc[t] = "check"
    /\ IF args[t].host = "" THEN Return(t, Response("Host not set", 503))
       ELSE IF args[t].command = "" THEN Return(t, Output(<<>>))
       ELSE Goto(t, "mkstemp")
    /\ UNCHANGED <<args, tmp_path, cmd_output, username, log, raised, overlap, env,
                   tags, calls, osVars>>

\* lines 270-273
Mkstemp(t) ==
    /\ pc[t] = "mkstemp"
    /\ created' = created + 1
    /\ files' = files \cup {created + 1}
    /\ tmp_path' = [tmp_path EXCEPT ![t] = created + 1]
    /\ Goto(t, "env_key")
    /\ UNCHANGED <<args, cmd_output, username, log, raised, overlap, env, tags, calls>>

\* line 275
SetEnvKey(t) ==
    /\ pc[t] = "env_key"
    /\ env' = [env EXCEPT !.key_filename = tmp_path[t]]
    /\ Goto(t, "env_user")
    /\ UNCHANGED <<args, tmp_path, cmd_output, username, log, raised, overlap, tags,
                   calls, osVars>>

\* a plausible slip: env.user is set only when a user is given, so a call
\* without one inherits the user of an earlier call
SetEnvUserNoDefault(t) ==
    /\ pc[t] = "env_user"
    /\ env' = [env EXCEPT !.user = IF args[t].ssh_user # "" THEN args[t].ssh_user ELSE @,
                          !.abort_on_prompts = TRUE, !.no_keys = TRUE, !.no_agent = TRUE]
    /\ Goto(t, "env_host")
    /\ UNCHANGED <<args, tmp_path, cmd_output, username, log, raised, overlap, tags,
                   calls, osVars>>

\* lines 276-282
SetEnvUser(t) ==
    /\ pc[t] = "env_user"
    /\ env' = [env EXCEPT !.user = IF args[t].ssh_user # "" THEN args[t].ssh_user ELSE "root",
                          !.abort_on_prompts = TRUE, !.no_keys = TRUE, !.no_agent = TRUE]
    /\ Goto(t, "env_host")
    /\ UNCHANGED <<args, tmp_path, cmd_output, username, log, raised, overlap, tags,
                   calls, osVars>>

\* lines 283-285
SetEnvHost(t) ==
    /\ pc[t] = "env_host"
    /\ env' = [env EXCEPT !.host_string = args[t].host, !.warn_only = TRUE,
                          !.combine_stderr = TRUE]
    /\ Goto(t, "run")
    /\ UNCHANGED <<args, tmp_path, cmd_output, username, log, raised, overlap, tags,
                   calls, osVars>>

\* lines 287-288 with the except clauses of lines 307-312; outs are the
\* outputs the remote host may answer with
Run(t, outs) ==
    /\ pc[t] = "run"
    /\ \/ \E out \in outs :
             /\ log' = [log EXCEPT ![t] = Append(@, RunRecord(out, "none"))]
             /\ cmd_output' = [cmd_output EXCEPT ![t] = out]
             /\ Goto(t, "inspect")
             /\ UNCHANGED raised
       \/ \E exc \in Raisable :
             /\ log' = [log EXCEPT ![t] = Append(@, RunRecord(<<>>, exc))]
             /\ raised' = [raised EXCEPT ![t] = exc]
             /\ Return(t, Catch(OuterHandlers, exc))
             /\ UNCHANGED cmd_output
    /\ UNCHANGED <<args, tmp_path, username, overlap, env, tags, calls, osVars>>

\* lines 289-293: look for the login message and parse the user name
Inspect(t) ==
    /\ pc[t] = "inspect"
    /\ IF ~HasLoginMsg(cmd_output[t])
       THEN /\ Goto(t, "remove")
            /\ UNCHANGED <<username, raised>>
       ELSE LET u == ParseUsername(cmd_output[t]) IN
            IF u.ok
            THEN /\ username' = [username EXCEPT ![t] = u.name]
                 /\ Goto(t, "tag")
                 /\ UNCHANGED raised
            ELSE /\ raised' = [raised EXCEPT ![t] = "IndexError"]
                 /\ Return(t, Catch(OuterHandlers, "IndexError"))
                 /\ UNCHANGED username
    /\ UNCHANGED <<args, tmp_path, cmd_output, log, overlap, env, tags, calls, osVars>>

\* lines 294-300: conn.ex_create_tags(machine, {'ssh_user': username})
Tag(t) ==
    /\ pc[t] = "tag"
    /\ \/ /\ tags' = [tags EXCEPT ![args[t].machine_id] = username[t]]
          /\ log' = [log EXCEPT ![t] = Append(@, [ev |-> "tag", user |-> username[t]])]
          /\ Goto(t, "env_user2")
          /\ UNCHANGED raised
       \/ \E exc \in Raisable :
             /\ raised' = [raised EXCEPT ![t] = exc]
             /\ UNCHANGED <<tags, log>>
             /\ Return(t, Catch(OuterHandlers, exc))
    /\ UNCHANGED <<args, tmp_path, cmd_output, username, overlap, env, calls, osVars>>

\* line 301
SetEnvUser2(t) ==
    /\ pc[t] = "env_user2"
    /\ env' = [env EXCEPT !.user = username[t]]
    /\ Goto(t, "run2")
    /\ UNCHANGED <<args, tmp_path, cmd_output, username, log, raised, overlap, tags,
                   calls, osVars>>

\* lines 302-306 inside the try statement of lines 287-312
Run2(t, outs) ==
    /\ pc[t] = "run2"
    /\ \/ \E out \in outs :
             /\ log' = [log EXCEPT ![t] = Append(@, RunRecord(out, "none"))]
             /\ cmd_output' = [cmd_output EXCEPT ![t] = out]
             /\ Goto(t, "remove")
             /\ UNCHANGED raised
       \/ \E exc \in Raisable :
             /\ log' = [log EXCEPT ![t] = Append(@, RunRecord(<<>>, exc))]
             /\ raised' = [raised EXCEPT ![t] = exc]
             /\ Return(t, RetryCatch(exc))
             /\ UNCHANGED cmd_output
    /\ UNCHANGED <<args, tmp_path, username, overlap, env, tags, calls, osVars>>

\* a plausible slip: the output is returned without os.remove(tmp_path)
RemoveKeepsFile(t) ==
    /\ pc[t] = "remove"
    /\ UNCHANGED <<files, log, created>>
    /\ Return(t, Output(cmd_output[t]))
    /\ UNCHANGED <<args, tmp_path, cmd_output, username, raised, overlap, env, tags,
                   calls>>

\* lines 314-316
Remove(t) ==
    /\ pc[t] = "remove"
    /\ files' = files \ {tmp_path[t]}
    /\ UNCHANGED <<log, created>>
    /\ Return(t, Output(cmd_output[t]))
    /\ UNCHANGED <<args, tmp_path, cmd_output, username, raised, overlap, env, tags,
                   calls>>

\* a request thread of the web server calls run_command
Call(t) ==
    /\ pc[t] = "idle"
    /\ Enter(t)

\* the caller calls run_command again after the previous call returned
CallAgain(t) ==
    /\ pc[t] = "done"
    /\ Enter(t)

(***************************************************************************)
(* import_key (helpers.py 178-206) and create_security_group (209-232)     *)
(*                                                                         *)
(* The provider is a stub: it holds key pairs and security groups by name, *)
(* refuses a name it already holds with a 'Duplicate' error, and may fail  *)
(* any request with another error.  keystore and groups are what the       *)
(* account behind the EC2 connection holds; pre and post in a call's       *)
(* record are what the connection's account held under the name before and *)
(* after the call.                                                         *)
(***************************************************************************)
ProvConns == {"EC2_EU_WEST", "RACKSPACE"}
KeyNames == {"k1", "k2"}
GroupNames == {"mistio"}
Descriptions == {"", "mist.io machines"}

\* messages of the provider's errors
DuplicateKeyMsg == "InvalidKeyPair.Duplicate"
DuplicateGroupMsg == "InvalidGroup.Duplicate"
OtherMsg == "RequestLimitExceeded"

\* 'Duplicate' in exc.message, lines 196 and 224
HasDuplicate(msg) == msg \in {DuplicateKeyMsg, DuplicateGroupMsg}

\* conn.ex_import_keypair(name=name, keyfile=tmp_path): "ok" or the error raised
ImportAnswers(name) ==
    IF keystore[name] >= 1 THEN {DuplicateKeyMsg, OtherMsg} ELSE {"ok", OtherMsg}

\* conn.ex_create_security_group(name=name, description=description)
CreateAnswers(name) ==
    IF groups[name].count >= 1 THEN {DuplicateGroupMsg, OtherMsg} ELSE {"ok", OtherMsg}

\* conn.ex_authorize_security_group_permissive(name=name); libcloud swallows
\* the duplicate-permission error itself
AuthorizeAnswers == {"ok", OtherMsg}

\* a plausible slip: the temporary file is not removed when the import fails
ImportBranchLeak(ans) ==
    IF ans = "ok" THEN [ret |-> TRUE, remove |-> TRUE]
    ELSE IF HasDuplicate(ans) THEN [ret |-> TRUE, remove |-> TRUE]
    ELSE [ret |-> FALSE, remove |-> FALSE]

\* a plausible slip: a duplicate key is reported as a failure
ImportBranchDuplicateFails(ans) ==
    IF ans = "ok" THEN [ret |-> TRUE, remove |-> TRUE]
    ELSE [ret |-> FALSE, remove |-> TRUE]

\* lines 191-203: the value returned and whether os.remove(tmp_path) is called
ImportBranch(ans) ==
    IF ans = "ok" THEN [ret |-> TRUE, remove |-> TRUE]
    ELSE IF HasDuplicate(ans) THEN [ret |-> TRUE, remove |-> TRUE]
    ELSE [ret |-> FALSE, remove |-> TRUE]

\* a plausible slip: every provider error is reported as a failure
GroupResultNoDuplicate(answers) ==
    \A i \in 1..Len(answers) : answers[i] = "ok"

\* lines 219-229: the value returned after the provider answered
GroupResult(answers) ==
    LET bad == {i \in 1..Len(answers) : answers[i] # "ok"} IN
    IF bad = {} THEN TRUE
    ELSE HasDuplicate(answers[CHOOSE i \in bad : TRUE])

\* an account that holds no key pair and no security group yet
InitPr ==
    /\ keystore = [n \in KeyNames |-> 0]
    /\ groups = [n \in GroupNames |-> [count |-> 0, permissive |-> FALSE]]
    /\ hist = <<>>

\* import_key(conn, public_key, name)
ImportKey ==
    /\ Len(hist) < MaxProvCalls
    /\ \E conn \in ProvConns, name \in KeyNames :
          IF conn \in EC2_PROVIDERS
          THEN \E ans \in ImportAnswers(name) :
                  LET path == created + 1
                      b == ImportBranch(ans) IN
                  /\ created' = path
                  /\ files' = IF b.remove THEN (files \cup {path}) \ {path}
                              ELSE files \cup {path}
                  /\ keystore' = IF ans = "ok" THEN [keystore EXCEPT ![name] = @ + 1]
                                 ELSE keystore
                  /\ hist' = Append(hist,
                        [op |-> "import_key", conn |-> conn, name |-> name,
                         description |-> "", answers |-> <<ans>>, tmp |-> path,
                         pre |-> [count |-> keystore[name], permissive |-> FALSE],
                         post |-> [count |-> keystore'[name], permissive |-> FALSE],
                         ret |-> b.ret])
          ELSE /\ hist' = Append(hist,
                        [op |-> "import_key", conn |-> conn, name |-> name,
                         description |-> "", answers |-> <<>>, tmp |-> 0,
                         pre |-> [count |-> 0, permissive |-> FALSE],
                         post |-> [count |-> 0, permissive |-> FALSE],
                         ret |-> FALSE])
               /\ UNCHANGED <<keystore, files, created>>
    /\ UNCHANGED groups

\* what the provider is asked and answers inside the try block, lines 220-221
GroupAnswers(name) ==
    {<<a>> : a \in CreateAnswers(name) \ {"ok"}}
    \cup {<<"ok", a>> : a \in {b \in AuthorizeAnswers : "ok" \in CreateAnswers(name)}}

\* the provider's group after the requests
GroupAfter(g, answers) ==
    IF answers[1] # "ok" THEN g
    ELSE [count |-> g.count + 1, permissive |-> (g.permissive \/ answers[2] = "ok")]

\* create_security_group(conn, info); an empty name or description stands
\* for a missing or empty entry of info
CreateSecurityGroup ==
    /\ Len(hist) < MaxProvCalls
    /\ \E conn \in ProvConns, name \in GroupNames \cup {""}, description \in Descriptions :
          IF conn \in EC2_PROVIDERS /\ name # "" /\ description # ""
          THEN \E answers \in GroupAnswers(name) :
                  /\ groups' = [groups EXCEPT ![name] = GroupAfter(@, answers)]
                  /\ hist' = Append(hist,
                        [op |-> "create_security_group", conn |-> conn, name |-> name,
                         description |-> description, answers |-> answers, tmp |-> 0,
                         pre |-> groups[name], post |-> groups'[name],
                         ret |-> GroupResult(answers)])
          ELSE /\ hist' = Append(hist,
                        [op |-> "create_security_group", conn |-> conn, name |-> name,
                         description |-> description, answers |-> <<>>, tmp |-> 0,
                         pre |-> [count |-> 0, permissive |-> FALSE],
                         post |-> [count |-> 0, permissive |-> FALSE],
                         ret |-> FALSE])
               /\ UNCHANGED groups
    /\ UNCHANGED <<keystore, files, created>>

(***************************************************************************)
(* load_settings (helpers.py 24-52) and save_settings (55-86)              *)
(*                                                                         *)
(* A dictionary is a record of values with the set `has` of the keys it    *)
(* holds; the value of a key it does not hold is the placeholder of        *)
(* EmptyDict.  keypairs is the set of its (name, public, private) entries. *)
(***************************************************************************)
SettingKeys == {"keypairs", "backends", "core_uri", "js_build", "js_log_level"}

EmptyDict ==
    [has |-> {}, keypairs |-> {}, backends |-> <<>>, core_uri |-> "",
     js_build |-> FALSE, js_log_level |-> 0]

KeyPairs == {[name |-> "default", public |-> "ssh-rsa AAAA", private |-> "BEGIN RSA\nMIIE\nEND RSA"],
             [name |-> "dev", public |-> "ssh-dss BBBB", private |-> "BEGIN DSA\nMIIB\nEND DSA"]}
Backends == {[provider |-> "EC2_EU_WEST", id |-> "AKIA", secret |-> "s3cr3t"],
             [provider |-> "LINODE", id |-> "", secret |-> "abc"]}
CoreUris == {"https://mist.io", "https://core.example.org"}
LogLevels == {0, 3, 4}

\* what pyramid hands over as global_config: with or without a core_uri
GlobalConfigs ==
    {EmptyDict} \cup {[EmptyDict EXCEPT !.has = {"core_uri"}, !.core_uri = u] : u \in CoreUris}

\* settings.yaml: missing, empty, or holding a YAML document
NoFile == [state |-> "absent"]
EmptyFile == [state |-> "empty"]
Document(doc) == [state |-> "document", doc |-> doc]

NothingSaved == EmptyDict

\* literal_unicode(text), represented as a block scalar (style '|')
Literal(text) == [style |-> "|", text |-> text]

\* the YAML constructor gives back the text of a scalar
Construct(node) == node.text

\* a plausible slip: the public key is written in both places
DumpKeypairsPublicTwice(keypairs) ==
    {[name |-> k.name, public |-> Literal(k.public), private |-> Literal(k.public)]
        : k \in keypairs}

\* lines 71-76
DumpKeypairs(keypairs) ==
    {[name |-> k.name, public |-> Literal(k.public), private |-> Literal(k.private)]
        : k \in keypairs}

\* lines 78-84: the document written by yaml.dump
Dump(s) ==
    [has |-> SettingKeys, keypairs |-> DumpKeypairs(s.keypairs), backends |-> s.backends,
     core_uri |-> s.core_uri, js_build |-> s.js_build, js_log_level |-> s.js_log_level]

\* line 40: yaml.load(config_file) or {}
Parse(f) ==
    IF f.state = "document"
    THEN [f.doc EXCEPT !.keypairs =
            {[name |-> k.name, public |-> Construct(k.public),
              private |-> Construct(k.private)] : k \in f.doc.keypairs}]
    ELSE EmptyDict

\* dict.get(key, default)
Get(d, key, default) == IF key \in d.has THEN d[key] ELSE default

\* a plausible slip: core_uri is always taken from the file
LoadedOverwriteCoreUri(s, f) ==
    LET user_config == Parse(f) IN
    [has |-> s.has \cup SettingKeys,
     keypairs |-> Get(user_config, "keypairs", {}),
     backends |-> Get(user_config, "backends", <<>>),
     js_build |-> Get(user_config, "js_build", FALSE),
     js_log_level |-> Get(user_config, "js_log_level", 3),
     core_uri |-> Get(user_config, "core_uri", "https://mist.io")]

\* lines 39-52: the settings dictionary after load_settings
Loaded(s, f) ==
    LET user_config == Parse(f) IN
    [has |-> s.has \cup SettingKeys,
     keypairs |-> Get(user_config, "keypairs", {}),
     backends |-> Get(user_config, "backends", <<>>),
     js_build |-> Get(user_config, "js_build", FALSE),
     js_log_level |-> Get(user_config, "js_log_level", 3),
     core_uri |-> IF "core_uri" \notin s.has
                  THEN Get(user_config, "core_uri", "https://mist.io")
                  ELSE s.core_uri]

InitSt ==
    /\ settings \in GlobalConfigs
    /\ file = NoFile
    /\ saved = NothingSaved
    /\ before = EmptyDict
    /\ last = [op |-> "start", edits |-> 0]

\* load_settings(settings)
LoadSettings ==
    /\ before' = settings
    /\ settings' = Loaded(settings, file)
    \* lines 31-37: a missing file is created empty
    /\ file' = IF file.state = "absent" THEN EmptyFile ELSE file
    /\ last' = [last EXCEPT !.op = "load"]
    /\ UNCHANGED saved

\* save_settings(settings); it raises KeyError unless the five keys are there
SaveSettings ==
    /\ SettingKeys \subseteq settings.has
    /\ file' = Document(Dump(settings))
    /\ saved' = settings
    /\ last' = [last EXCEPT !.op = "save"]
    /\ UNCHANGED <<settings, before>>

\* the views change the loaded settings in memory: a key pair or a backend
\* is added or removed, the UI flags are set
EditSettings ==
    /\ SettingKeys \subseteq settings.has
    /\ last.edits < MaxEdits
    /\ \/ \E k \in KeyPairs : settings' = [settings EXCEPT !.keypairs = @ \cup {k}]
       \/ \E k \in KeyPairs : settings' = [settings EXCEPT !.keypairs = @ \ {k}]
       \/ \E b \in Backends : Len(settings.backends) < 2
                              /\ settings' = [settings EXCEPT !.backends = Append(@, b)]
       \/ \E b \in BOOLEAN : settings' = [settings EXCEPT !.js_build = b]
       \/ \E l \in LogLevels : settings' = [settings EXCEPT !.js_log_level = l]
    /\ last' = [op |-> "edit", edits |-> last.edits + 1]
    /\ UNCHANGED <<file, saved, before>>

\* the process is started again with the global_config of the moment
Restart ==
    /\ last.op \in {"save", "load"}
    /\ settings' \in GlobalConfigs
    /\ last' = [last EXCEPT !.op = "start"]
    /\ UNCHANGED <<file, saved, before>>

(***************************************************************************)
(* Specifications, one per component.  The components share no state but  *)
(* the temporary directory; each specification leaves the others idle.     *)
(***************************************************************************)
IdleSt ==
    /\ settings = EmptyDict
    /\ file = NoFile
    /\ saved = NothingSaved
    /\ before = EmptyDict
    /\ last = [op |-> "start", edits |-> 0]

IdleGm ==
    /\ machine = "RUNNING"
    /\ backend = "OPENSTACK"
    /\ actions = NoActions

RcIdle == UNCHANGED rcVars
OsIdle == UNCHANGED osVars
PrIdle == UNCHANGED prVars
StIdle == UNCHANGED stVars
GmIdle == UNCHANGED gmVars

\* run_command called by one thread, one invocation after the other
InitRun == InitRc /\ InitOs /\ InitPr /\ IdleSt /\ IdleGm
NextRun ==
    \/ Call("t1") /\ PrIdle /\ StIdle /\ GmIdle
    \/ CallAgain("t1") /\ PrIdle /\ StIdle /\ GmIdle
    \/ Precheck("t1") /\ PrIdle /\ StIdle /\ GmIdle
    \/ Mkstemp("t1") /\ PrIdle /\ StIdle /\ GmIdle
    \/ SetEnvKey("t1") /\ PrIdle /\ StIdle /\ GmIdle
    \/ SetEnvUser("t1") /\ PrIdle /\ StIdle /\ GmIdle
    \/ SetEnvHost("t1") /\ PrIdle /\ StIdle /\ GmIdle
    \/ Run("t1", Outputs) /\ PrIdle /\ StIdle /\ GmIdle
    \/ Inspect("t1") /\ PrIdle /\ StIdle /\ GmIdle
    \/ Tag("t1") /\ PrIdle /\ StIdle /\ GmIdle
    \/ SetEnvUser2("t1") /\ PrIdle /\ StIdle /\ GmIdle
    \/ Run2("t1", Outputs) /\ PrIdle /\ StIdle /\ GmIdle
    \/ Remove("t1") /\ PrIdle /\ StIdle /\ GmIdle
SpecRun == InitRun /\ [][NextRun]_vars

\* run_command called once by each of two request threads of the same process;
\* the remote hosts answer normally or with the login message
ConcOutputs == {OutOk, OutUser}
NextConc ==
    \E t \in Threads :
        \/ Call(t) /\ PrIdle /\ StIdle /\ GmIdle
        \/ Precheck(t) /\ PrIdle /\ StIdle /\ GmIdle
        \/ Mkstemp(t) /\ PrIdle /\ StIdle /\ GmIdle
        \/ SetEnvKey(t) /\ PrIdle /\ StIdle /\ GmIdle
        \/ SetEnvUser(t) /\ PrIdle /\ StIdle /\ GmIdle
        \/ SetEnvHost(t) /\ PrIdle /\ StIdle /\ GmIdle
        \/ Run(t, ConcOutputs) /\ PrIdle /\ StIdle /\ GmIdle
        \/ Inspect(t) /\ PrIdle /\ StIdle /\ GmIdle
        \/ Tag(t) /\ PrIdle /\ StIdle /\ GmIdle
        \/ SetEnvUser2(t) /\ PrIdle /\ StIdle /\ GmIdle
        \/ Run2(t, ConcOutputs) /\ PrIdle /\ StIdle /\ GmIdle
        \/ Remove(t) /\ PrIdle /\ StIdle /\ GmIdle
SpecConc == InitRun /\ [][NextConc]_vars

InitProv == InitRc /\ InitOs /\ InitPr /\ IdleSt /\ IdleGm
NextProv ==
    \/ ImportKey /\ RcIdle /\ StIdle /\ GmIdle
    \/ CreateSecurityGroup /\ RcIdle /\ StIdle /\ GmIdle
SpecProv == InitProv /\ [][NextProv]_vars

InitSettings == InitRc /\ InitOs /\ InitPr /\ InitSt /\ IdleGm
NextSettings ==
    \/ LoadSettings /\ RcIdle /\ OsIdle /\ PrIdle /\ GmIdle
    \/ SaveSettings /\ RcIdle /\ OsIdle /\ PrIdle /\ GmIdle
    \/ EditSettings /\ RcIdle /\ OsIdle /\ PrIdle /\ GmIdle
    \/ Restart /\ RcIdle /\ OsIdle /\ PrIdle /\ GmIdle
SpecSettings == InitSettings /\ [][NextSettings]_vars

InitActions == InitRc /\ InitOs /\ InitPr /\ IdleSt /\ InitGm
NextActions ==
    \/ GetMachineActions /\ RcIdle /\ OsIdle /\ PrIdle /\ StIdle
    \/ NextMachine /\ RcIdle /\ OsIdle /\ PrIdle /\ StIdle
SpecActions == InitActions /\ [][NextActions]_vars

(***************************************************************************)
(* Properties of get_machine_actions                                       *)
(***************************************************************************)
\* the rule table of the capability resolver, row by row
RuleTable(state, type) ==
    LET ec2 == type \in EC2_PROVIDERS
        untaggable == type \in {"RACKSPACE_FIRST_GEN", "LINODE"} IN
    CASE state \in {"REBOOTING", "PENDING"} ->
            [can_start |-> FALSE, can_stop |-> FALSE, can_destroy |-> TRUE,
             can_reboot |-> FALSE, can_tag |-> ~untaggable]
      [] state = "UNKNOWN" /\ ec2 ->
            [can_start |-> TRUE, can_stop |-> FALSE, can_destroy |-> TRUE,
             can_reboot |-> FALSE, can_tag |-> TRUE]
      [] state \in {"TERMINATED", "UNKNOWN"} /\ ~(state = "UNKNOWN" /\ ec2) ->
            [can_start |-> FALSE, can_stop |-> FALSE, can_destroy |-> FALSE,
             can_reboot |-> FALSE, can_tag |-> FALSE]
      [] OTHER ->
            [can_start |-> FALSE, can_stop |-> ec2, can_destroy |-> TRUE,
             can_reboot |-> TRUE, can_tag |-> ~untaggable]

\* C1: for every backend type and every machine state, the dictionary that
\* get_machine_actions returns is exactly the row of the rule table.
C1_ActionsFollowRuleTable ==
    actions # NoActions => actions = RuleTable(machine, backend)

\* C1 witness: an UNKNOWN machine on EC2 has been resolved as stopped.
C1_Ec2UnknownResolved ==
    /\ actions # NoActions
    /\ machine = "UNKNOWN"
    /\ backend \in EC2_PROVIDERS
    /\ actions.can_start
    /\ actions.can_destroy

(***************************************************************************)
(* Properties of run_command                                               *)
(***************************************************************************)
Returned(t) == pc[t] = "done"

IsResponse(r, status) == r.kind = "response" /\ r.status = status

RunsOf(t) == {i \in 1..Len(log[t]) : log[t][i].ev = "run"}

\* the first SSH run of the invocation answered with the login message
FirstRunAsksLogin(t) ==
    /\ Len(log[t]) >= 1
    /\ log[t][1].exc = "none"
    /\ HasLoginMsg(log[t][1].out)

\* the user name the message suggests: the token after 'Please login as the',
\* or after 'Please login as the user' in that wording
Suggested(toks) ==
    LET i == CHOOSE k \in 1..Len(toks) : HasAt(toks, Msg, k)
        rest == SubSeq(toks, i + Len(Msg), Len(toks)) IN
    IF Len(rest) >= 2 /\ rest[1] = W("user") THEN rest[2].w
    ELSE IF Len(rest) >= 1 THEN rest[1].w
    ELSE ""

\* the token of the output at the fixed position run_command reads:
\* the sixth when the 'user' wording is there, else the fifth
FixedPosition(toks) == IF HasLoginUserMsg(toks) THEN 6 ELSE 5

\* the response for an exception of class exc
StatusOf(exc) == IF exc = "SystemExit" THEN 204 ELSE 503

\* C2 as claimed: whenever the first run's output holds the login message
\* (with a user name after it), the machine is tagged with the suggested user name, the command is run exactly
\* once more with it, the second output is returned and a failure of the
\* second run gives 503.
C2_AlwaysTagsAndRetries ==
    \A t \in Threads :
        (Returned(t) /\ FirstRunAsksLogin(t) /\ Suggested(log[t][1].out) # "") =>
            /\ Len(log[t]) = 3
            /\ log[t][2].ev = "tag"
            /\ log[t][2].user = Suggested(log[t][1].out)
            /\ log[t][3].ev = "run"
            /\ log[t][3].user = Suggested(log[t][1].out)
            /\ IF log[t][3].exc = "none"
               THEN result[t] = Output(log[t][3].out)
               ELSE IsResponse(result[t], 503)

\* C2 amended: no invocation makes more than two SSH runs.  When the first
\* run's output holds the login message: if the output has no token at the
\* fixed position, or tagging raises, there is no retry and the response is
\* 503 (204 for SystemExit); otherwise the machine is tagged with the token
\* at the fixed position (the suggested user name when the message starts the
\* output), then the command is run exactly once more with that user, and the
\* second run's output is returned, or 503 when it raises an Exception and
\* 204 when it raises SystemExit.
C2_TagsThenRetriesOnce ==
    \A t \in Threads :
        /\ Cardinality(RunsOf(t)) <= 2
        /\ (Returned(t) /\ FirstRunAsksLogin(t)) =>
              LET first == log[t][1].out
                  pos == FixedPosition(first) IN
              IF Len(first) < pos \/ Len(log[t]) = 1
              THEN /\ Len(log[t]) = 1
                   /\ raised[t] # "none"
                   /\ (Len(first) < pos => raised[t] = "IndexError")
                   /\ IsResponse(result[t], StatusOf(raised[t]))
              ELSE /\ Len(log[t]) = 3
                   /\ log[t][2] = [ev |-> "tag", user |-> first[pos].w]
                   /\ tags[args[t].machine_id] = first[pos].w
                   /\ (HasAt(first, Msg, 1) => first[pos].w = Suggested(first))
                   /\ log[t][3].ev = "run"
                   /\ log[t][3].user = first[pos].w
                   /\ IF log[t][3].exc = "none"
                      THEN result[t] = Output(log[t][3].out)
                      ELSE IsResponse(result[t], StatusOf(log[t][3].exc))

\* C2 witness: the login message was answered, the machine tagged, the command
\* run again and the second output returned.
C2_RetryReturnedSecondOutput ==
    /\ Returned("t1")
    /\ FirstRunAsksLogin("t1")
    /\ Len(log["t1"]) = 3
    /\ log["t1"][2] = [ev |-> "tag", user |-> "ec2-user"]
    /\ log["t1"][3].user = "ec2-user"
    /\ result["t1"] = Output(OutOk)

\* C3: an exception raised in the first run, the parsing, the tagging or the
\* retry run never propagates: the invocation returns a response, 503 for an
\* Exception and 204 for SystemExit.
C3_ExceptionsBecomeResponses ==
    \A t \in Threads :
        /\ result[t].kind # "raised"
        /\ (Returned(t) /\ raised[t] # "none") =>
              IsResponse(result[t], IF raised[t] = "SystemExit" THEN 204 ELSE 503)
        /\ (raised[t] # "none") => Returned(t)

\* C3 witness: the retry run raised SystemExit and 204 was returned.
C3_RetrySystemExit ==
    /\ Returned("t1")
    /\ Len(log["t1"]) = 3
    /\ log["t1"][3].exc = "SystemExit"
    /\ raised["t1"] = "SystemExit"
    /\ IsResponse(result["t1"], 204)

\* the invocation returned from the precondition checks
EarlyReturn(t) == Returned(t) /\ (args[t].host = "" \/ args[t].command = "")

\* C4: an empty host gives 503, also with an empty command; a non-empty host
\* with an empty command gives the empty string; in both cases the step that
\* returns leaves the session configuration, the temporary files and the SSH
\* layer untouched, and the invocation has made no run and created no file.
C4_PreconditionsBeforeEffects ==
    /\ [](\A t \in Threads :
            EarlyReturn(t) =>
                /\ result[t] = IF args[t].host = "" THEN Response("Host not set", 503)
                                ELSE Output(<<>>)
                /\ log[t] = <<>>
                /\ tmp_path[t] = 0)
    /\ [][\A t \in Threads :
            (pc[t] = "check" /\ (args[t].host = "" \/ args[t].command = "")) =>
                (pc'[t] = "done" /\ UNCHANGED <<env, files, created, log, tags>>)]_vars

\* C4 witness: a call with neither host nor command returned 503 after an
\* earlier call had configured the session.
C4_EmptyHostAndCommand ==
    /\ Returned("t1")
    /\ args["t1"].host = ""
    /\ args["t1"].command = ""
    /\ IsResponse(result["t1"], 503)
    /\ env.host_string # ""

\* C8: when run_command returns output after an SSH run its temporary file is
\* gone; when it returns a response after creating the file, the file is
\* still there.
C8_FileRemovedOnSuccessOnly ==
    \A t \in Threads :
        Returned(t) =>
            /\ (result[t].kind = "output" /\ RunsOf(t) # {}) =>
                  (tmp_path[t] # 0 /\ tmp_path[t] \notin files)
            /\ (result[t].kind = "response" /\ tmp_path[t] # 0) =>
                  tmp_path[t] \in files

\* C8 witness: a retried invocation returned output and removed its file,
\* while the file of an earlier, failed invocation is still there.
C8_RemovedAfterRetryLeakedBefore ==
    /\ Returned("t1")
    /\ result["t1"].kind = "output"
    /\ Cardinality(RunsOf("t1")) = 2
    /\ tmp_path["t1"] \notin files
    /\ files # {}

\* the session configuration the invocation of t wrote for its i-th log entry
OwnConfig(t, i) ==
    /\ log[t][i].host = args[t].host
    /\ log[t][i].key = tmp_path[t]
    /\ log[t][i].user = IF i = 1
                        THEN (IF args[t].ssh_user # "" THEN args[t].ssh_user ELSE "root")
                        ELSE username[t]

\* C9: an SSH run uses a host, user or key file other than its own
\* invocation's only when the invocation overlapped another one: serialized
\* invocations always run with their own configuration.
C9_SerializedRunsUseOwnConfig ==
    \A t \in Threads : \A i \in RunsOf(t) : ~overlap[t] => OwnConfig(t, i)

\* C9 witness: two interleaved invocations, and the SSH run of one was made
\* with the host and the key file of the other.
C9_RunWithForeignConfig ==
    \E t \in Threads : \E o \in Threads \ {t} : \E i \in RunsOf(t) :
        /\ overlap[t]
        /\ args[t].host # args[o].host
        /\ log[t][i].host = args[o].host
        /\ log[t][i].key = tmp_path[o]
        /\ log[t][i].key # tmp_path[t]

\* both invocations ran serialized, each with a retry, on different hosts
C9_SerializedBothRetried ==
    \A t \in Threads :
        /\ Returned(t)
        /\ ~overlap[t]
        /\ Cardinality(RunsOf(t)) = 2
        /\ \A o \in Threads \ {t} : args[o].host # args[t].host

(***************************************************************************)
(* Properties of import_key and create_security_group                      *)
(***************************************************************************)
Calls(op) == {i \in 1..Len(hist) : hist[i].op = op}

\* the call reached the provider: an EC2 connection and, for a security
\* group, a name and a description
Attempted(c) == c.answers # <<>>

AnsweredDuplicate(c) == Attempted(c) /\ HasDuplicate(c.answers[1])

AllAnsweredOk(c) == Attempted(c) /\ \A i \in 1..Len(c.answers) : c.answers[i] = "ok"

SameArguments(c, d) ==
    /\ c.op = d.op
    /\ c.conn = d.conn
    /\ c.name = d.name
    /\ c.description = d.description

\* the provider never holds two keys or two groups of one name
NoDuplicateResource ==
    /\ \A n \in KeyNames : keystore[n] <= 1
    /\ \A n \in GroupNames : groups[n].count <= 1

\* two successive calls with identical arguments of which the second met the
\* resource and was answered 'Duplicate', the first having met it too (and
\* been answered 'Duplicate') or having met a provider without it
CalledTwice(i) ==
    /\ i + 1 <= Len(hist)
    /\ SameArguments(hist[i], hist[i + 1])
    /\ AnsweredDuplicate(hist[i + 1])
    /\ (AnsweredDuplicate(hist[i]) \/ (Attempted(hist[i]) /\ hist[i].pre.count = 0))

\* the call created the group and failed to authorize it
CreatedUnauthorized(c) == c.answers = <<"ok", OtherMsg>>

\* C5 as claimed: of two successive calls with identical arguments on an EC2
\* connection, the second answered with 'Duplicate', both return true, and
\* the provider holds no resource twice.
C5_TwiceGivesTrueTwice ==
    /\ NoDuplicateResource
    /\ \A i \in 1..Len(hist) : CalledTwice(i) => (hist[i].ret /\ hist[i + 1].ret)

\* C5 amended: a call answered with 'Duplicate' returns true and leaves the
\* provider as it was, and the provider never holds a key or group twice; of
\* two successive identical calls of which the second is answered
\* 'Duplicate', the second returns true, and the first returns true too,
\* except that a create_security_group that created the group and failed to
\* authorize it returned false.
C5_IdempotentOnDuplicate ==
    /\ NoDuplicateResource
    /\ \A i \in 1..Len(hist) :
          /\ AnsweredDuplicate(hist[i]) => (hist[i].ret /\ hist[i].post = hist[i].pre)
          /\ CalledTwice(i) =>
                /\ hist[i + 1].ret
                /\ hist[i + 1].post.count = 1
                /\ hist[i].ret <=> ~CreatedUnauthorized(hist[i])
                /\ hist[i].op = "import_key" => hist[i].ret

\* C5 witness: a key was imported and the same import, made again, was
\* answered 'Duplicate' and returned true; a security group was created.
C5_ImportedThenDuplicate ==
    /\ Len(hist) = 3
    /\ hist[1].op = "import_key"
    /\ AllAnsweredOk(hist[1])
    /\ SameArguments(hist[1], hist[2])
    /\ AnsweredDuplicate(hist[2])
    /\ hist[1].ret /\ hist[2].ret
    /\ keystore[hist[1].name] = 1
    /\ hist[3].op = "create_security_group"
    /\ AllAnsweredOk(hist[3])
    /\ hist[3].ret

\* C6: a temporary file created by an import_key call that returned does not
\* exist any more, whatever the provider answered (an answer that is neither
\* success nor 'Duplicate' giving false); on a connection that is not EC2
\* the call returns false, creates no file and asks the provider nothing.
C6_NoKeyFileLeft ==
    \A i \in Calls("import_key") :
        /\ hist[i].tmp \notin files
        /\ IF hist[i].conn \in EC2_PROVIDERS
           THEN /\ hist[i].tmp # 0
                /\ Len(hist[i].answers) = 1
                /\ hist[i].ret = (hist[i].answers[1] \in {"ok", DuplicateKeyMsg})
           ELSE /\ ~hist[i].ret
                /\ hist[i].tmp = 0
                /\ hist[i].answers = <<>>
                /\ hist[i].post = hist[i].pre

\* C6 witness: imports that succeeded, met a duplicate and failed otherwise
\* have all returned, three files were created and none is left.
C6_AllPathsReturned ==
    /\ Len(hist) = 3
    /\ \A i \in 1..3 : hist[i].op = "import_key" /\ hist[i].conn \in EC2_PROVIDERS
    /\ {hist[i].answers[1] : i \in 1..3} = {"ok", DuplicateKeyMsg, OtherMsg}
    /\ created = 3
    /\ files = {}

\* C10 as claimed: true means the group exists with the permissive rules
\* applied; false means the call created no group.
C10_TrueMeansPermissive ==
    \A i \in Calls("create_security_group") :
        /\ hist[i].ret => (hist[i].post.count >= 1 /\ hist[i].post.permissive)
        /\ ~hist[i].ret => hist[i].post.count = hist[i].pre.count
        /\ ~Attempted(hist[i]) => ~hist[i].ret

\* C10 amended: true means the group exists, with the permissive rules applied
\* by this call unless the provider answered 'Duplicate', in which case the
\* call changed nothing and the rules are as they were; a missing name or
\* description or a connection that is not EC2 gives false with no request to
\* the provider; any other false means that the creation failed and no group
\* was created, or that the group was created and authorizing it failed.
C10_GroupResult ==
    \A i \in Calls("create_security_group") :
        LET c == hist[i]
            valid == c.conn \in EC2_PROVIDERS /\ c.name # "" /\ c.description # "" IN
        /\ Attempted(c) <=> valid
        /\ ~valid => (~c.ret /\ c.post = c.pre)
        /\ (valid /\ c.ret) =>
              /\ c.post.count = 1
              /\ IF AnsweredDuplicate(c)
                 THEN c.post = c.pre /\ Len(c.answers) = 1
                 ELSE c.answers = <<"ok", "ok">> /\ c.pre.count = 0 /\ c.post.permissive
        /\ (valid /\ ~c.ret) =>
              \/ c.answers = <<OtherMsg>> /\ c.post = c.pre
              \/ /\ c.answers = <<"ok", OtherMsg>>
                 /\ c.pre.count = 0
                 /\ c.post = [count |-> 1, permissive |-> FALSE]

\* C10 witness: a group was created but not authorized (false), and the next
\* call for it met the duplicate and returned true.
C10_CreatedUnauthorizedThenTrue ==
    /\ Len(hist) >= 2
    /\ hist[1].op = "create_security_group"
    /\ hist[1].answers = <<"ok", OtherMsg>>
    /\ ~hist[1].ret
    /\ SameArguments(hist[1], hist[2])
    /\ AnsweredDuplicate(hist[2])
    /\ hist[2].ret
    /\ ~groups[hist[2].name].permissive

(***************************************************************************)
(* Properties of the settings store                                        *)
(***************************************************************************)
\* load_settings has just read a file that save_settings wrote
LoadedAfterSave == last.op = "load" /\ saved # NothingSaved /\ file.state = "document"

RoundTripsWithoutCoreUri ==
    /\ settings.keypairs = saved.keypairs
    /\ settings.backends = saved.backends
    /\ settings.js_build = saved.js_build
    /\ settings.js_log_level = saved.js_log_level

====
